---- MODULE Spec2Model ----
(***************************************************************************)
(* Model of dz_latency.py: the per-IP validator report.                    *)
(*                                                                         *)
(* Spec        one run of main(): the input loads, the early returns, the  *)
(*             per-IP loop and the write of the CSV file.                  *)
(* SpecLookup  get_identity_from_gossip applied to bounded snapshots.      *)
(*                                                                         *)
(* Text that the program edits (validator names) is a sequence of          *)
(* one-character strings; text it only copies is a string.  A CSV row is   *)
(* the sequence of its fields.                                             *)
(***************************************************************************)
EXTENDS Integers, Sequences, FiniteSets, TLC

\* ---------------------------------------------------------------- bounds
MaxIPs == 2          \* lines of the IP source
MaxValidators == 2   \* entries of the `solana validators` list
MaxDetails == 2      \* entries of the `solana validator-info` list
MaxSnapshot == 1     \* gossip records in a run
MaxGossip == 3       \* gossip records in a lookup checked on its own

\* ------------------------------------------------------------ value sets
IPs == {"10.0.0.5", "10.0.0.9"}
Ids == {"ABC", "DEF"}
None == "<None>"
Absent == "<absent>"
Blank == ""

Node1 == <<"N", "o", "d", "e", "1">>
CommaName == <<"A", ",", "B">>
UnknownName == <<"U", "n", "k", "n", "o", "w", "n">>
NoName == <<>>

\* The entries `solana validator-info get` can list: an identity with its
\* name, an identity without a name, a name without an identity.
DetailEntries ==
    {[identityPubkey |-> "ABC", name |-> Node1],
     [identityPubkey |-> "ABC", name |-> NoName],
     [identityPubkey |-> "DEF", name |-> CommaName],
     [identityPubkey |-> "DEF", name |-> NoName],
     [identityPubkey |-> Blank, name |-> Node1]}

BoundedSeq(S, n) == UNION {[1..k -> S] : k \in 0..n}

\* A gossip entry is a JSON object with the two fields read by the lookup
\* (an empty identityPubkey stands for a missing or empty one), or a JSON
\* value that is not an object.
GossipEntries ==
    [isObj : {TRUE}, ipAddress : IPs, identityPubkey : Ids \cup {Blank}]
    \cup {[isObj |-> FALSE, ipAddress |-> Blank, identityPubkey |-> Blank]}

\* What the ping subprocess can do.
PingOutcomes ==
    {[kind |-> "exit", returncode |-> 0, avg |-> "12.3"],
     [kind |-> "exit", returncode |-> 0, avg |-> Absent],
     [kind |-> "exit", returncode |-> 1, avg |-> Absent],
     [kind |-> "timeout", returncode |-> 0, avg |-> Absent],
     [kind |-> "error", returncode |-> 0, avg |-> Absent]}

\* What the geo HTTP request can do.
GeoOutcomes ==
    {[kind |-> "ok", status |-> "success", city |-> "Paris", country |-> "France"],
     [kind |-> "ok", status |-> "fail", city |-> Absent, country |-> Absent],
     [kind |-> "http_error", status |-> Absent, city |-> Absent, country |-> Absent],
     [kind |-> "request_exception", status |-> Absent, city |-> Absent, country |-> Absent],
     [kind |-> "error", status |-> Absent, city |-> Absent, country |-> Absent]}

\* ------------------------------------------------------------- functions

\* ping_ip: the average of the summary line, else 'unreachable'.
ping_ip_timeout_leak(o) ==
    IF o.kind = "exit" /\ o.returncode = 0 /\ o.avg # Absent THEN o.avg
    ELSE IF o.kind = "timeout" THEN "0.0"
    ELSE "unreachable"

ping_ip(o) ==
    IF o.kind = "exit" /\ o.returncode = 0 /\ o.avg # Absent THEN o.avg
    ELSE "unreachable"

\* get_ip_location: (city, country), 'Unknown' for whatever is missing.
get_ip_location(o) ==
    IF o.kind = "ok" /\ o.status = "success"
    THEN <<IF o.city = Absent THEN "Unknown" ELSE o.city,
           IF o.country = Absent THEN "Unknown" ELSE o.country>>
    ELSE <<"Unknown", "Unknown">>

\* The scan of get_identity_from_gossip from position j on.  Reading a
\* field of an entry that is not an object raises, and the handler returns
\* None.
RECURSIVE ScanFirstIp(_, _, _)
ScanFirstIp(ip_address, entries, j) ==
    IF j > Len(entries) THEN None
    ELSE IF ~entries[j].isObj THEN None
    ELSE IF entries[j].ipAddress = ip_address
         THEN IF entries[j].identityPubkey # Blank
              THEN entries[j].identityPubkey ELSE None
    ELSE ScanFirstIp(ip_address, entries, j + 1)

RECURSIVE Scan(_, _, _)
Scan(ip_address, entries, j) ==
    IF j > Len(entries) THEN None
    ELSE IF ~entries[j].isObj THEN None
    ELSE IF entries[j].ipAddress = ip_address /\ entries[j].identityPubkey # Blank
         THEN entries[j].identityPubkey
    ELSE Scan(ip_address, entries, j + 1)

\* get_identity_from_gossip; iterating None raises and gives None too.
get_identity_first_ip(ip_address, gossip) ==
    IF gossip.none THEN None ELSE ScanFirstIp(ip_address, gossip.entries, 1)

get_identity_from_gossip(ip_address, gossip) ==
    IF gossip.none THEN None ELSE Scan(ip_address, gossip.entries, 1)

\* dict.get(key, default)
DictGet(d, k, default) == IF k \in DOMAIN d THEN d[k] ELSE default

\* The classification of main: status and name from the identity.
ClassifyAlwaysValidator(identity_key, active, info) ==
    IF identity_key # None
    THEN [status |-> "validator", name |-> DictGet(info, identity_key, UnknownName)]
    ELSE [status |-> "gossip_not_found", name |-> NoName]

Classify(identity_key, active, info) ==
    IF identity_key # None
    THEN IF identity_key \in active
         THEN [status |-> "validator", name |-> DictGet(info, identity_key, UnknownName)]
         ELSE [status |-> "gossip", name |-> NoName]
    ELSE [status |-> "gossip_not_found", name |-> NoName]

\* name.replace(',', '')
StripCommas(name) == SelectSeq(name, LAMBDA c : c # ",")

\* The row appended for one IP.
BuildRow(no_geo, ip, status, name, latency, loc) ==
    IF no_geo THEN <<ip, status, name, latency>>
    ELSE <<ip, status, StripCommas(name), latency, loc[1], loc[2]>>

\* results.append(row)
AppendResultSkipUnreachable(res, row) ==
    IF row[4] = "unreachable" THEN res ELSE Append(res, row)

AppendResult(res, row) == Append(res, row)

\* The header written for the flag.
HeaderRow(no_geo) ==
    IF no_geo THEN <<"IP", "Status", "Validator Name", "Latency", "City", "Country">>
    ELSE <<"IP", "Status", "Validator Name", "Latency">>

\* [line.strip() for line in f if line.strip()], and the same filter of
\* get_ips_from_rt.
NonBlank(lines) == SelectSeq(lines, LAMBDA l : l # Blank)

\* {v.get("identityPubkey") for v in validator_list if v.get("identityPubkey")}
ActiveIdentities(validator_list) ==
    {validator_list[k] : k \in {j \in 1..Len(validator_list) : validator_list[j] # Blank}}

\* The dict comprehension of load_validator_details: entries without an
\* identity or a name are left out, a later entry replaces an earlier one.
RECURSIVE ValidatorMap(_, _)
ValidatorMap(validators_data, n) ==
    IF n = 0 THEN [x \in {} |-> NoName]
    ELSE LET m == ValidatorMap(validators_data, n - 1)
             v == validators_data[n]
         IN IF v.identityPubkey # Blank /\ v.name # NoName
            THEN [x \in DOMAIN m \cup {v.identityPubkey} |->
                     IF x = v.identityPubkey THEN v.name ELSE m[x]]
            ELSE m

\* The four early returns of main, in order.
EarlyReturnNoGossipCheck(ips, active, info, gossip) ==
    IF ips = <<>> THEN "no_ips"
    ELSE IF active = {} THEN "no_active"
    ELSE IF DOMAIN info = {} THEN "no_details"
    ELSE "continue"

EarlyReturn(ips, active, info, gossip) ==
    IF ips = <<>> THEN "no_ips"
    ELSE IF active = {} THEN "no_active"
    ELSE IF DOMAIN info = {} THEN "no_details"
    ELSE IF gossip.none \/ gossip.entries = <<>> THEN "no_gossip"
    ELSE "continue"

\* ----------------------------------------------------------------- state
VARIABLES
    pc,                           \* where main is
    args,                         \* the parsed flags: [no_geo]
    ip_addresses,
    active_validator_identities,
    validator_info,
    gossip_data,                  \* [none, entries]
    loadFailed,                   \* the setup loads that failed
    results,                      \* the rows buffered in memory
    identities,                   \* identity_key of each iteration
    classified,                   \* (status, name) of each iteration
    outcomes,                     \* what the probe and the geo call did
    file,                         \* the output file: [header, rows]
    fileOpened,                   \* the output file was opened for writing
    lookup                        \* a lookup on its own (SpecLookup)

vars == <<pc, args, ip_addresses, active_validator_identities, validator_info,
          gossip_data, loadFailed, results, identities, classified, outcomes,
          file, fileOpened, lookup>>

runVars == <<pc, args, ip_addresses, active_validator_identities, validator_info,
             gossip_data, loadFailed, results, identities, classified, outcomes,
             file, fileOpened>>

loopVars == <<results, identities, classified, outcomes>>
dataVars == <<ip_addresses, active_validator_identities, validator_info, gossip_data>>

NoGossip == [none |-> TRUE, entries |-> <<>>]
EmptyFile == [header |-> <<>>, rows |-> <<>>]
IdleLookup == [ip |-> Blank, gossip |-> NoGossip, result |-> None, done |-> FALSE]

InitRun ==
    /\ pc = "start"
    /\ args \in [no_geo : BOOLEAN]
    /\ ip_addresses = <<>>
    /\ active_validator_identities = {}
    /\ validator_info = [x \in {} |-> NoName]
    /\ gossip_data = NoGossip
    /\ loadFailed = {}
    /\ results = <<>>
    /\ identities = <<>>
    /\ classified = <<>>
    /\ outcomes = <<>>
    /\ file = EmptyFile
    /\ fileOpened = FALSE

Init == InitRun /\ lookup = IdleLookup

\* --------------------------------------------------------------- actions

\* main, the IP source: open(args.ip_list) is not guarded, get_ips_from_rt
\* turns every failure into [].  --ip_list is read here and nowhere else, so
\* it is an input of this step.
LoadIPs ==
    /\ pc = "start"
    /\ \/ /\ \/ /\ pc' = "crashed"            \* the file cannot be opened
                /\ UNCHANGED ip_addresses
             \/ \E lines \in BoundedSeq(IPs \cup {Blank}, MaxIPs) :
                   /\ ip_addresses' = NonBlank(lines)
                   /\ pc' = "load_active"
       \/ /\ \/ ip_addresses' = <<>>          \* non-zero exit, timeout, error
             \/ \E lines \in BoundedSeq(IPs \cup {Blank}, MaxIPs) :
                   ip_addresses' = NonBlank(lines)
          /\ pc' = "load_active"
    /\ UNCHANGED <<args, active_validator_identities, validator_info, gossip_data,
                   loadFailed, loopVars, file, fileOpened, lookup>>

\* load_active_validators: set() on every failure.
LoadActiveValidators ==
    /\ pc = "load_active"
    /\ \/ /\ active_validator_identities' = {}
          /\ loadFailed' = loadFailed \cup {"active"}
       \/ \E validator_list \in BoundedSeq(Ids \cup {Blank}, MaxValidators) :
             /\ active_validator_identities' = ActiveIdentities(validator_list)
             /\ UNCHANGED loadFailed
    /\ pc' = "load_details"
    /\ UNCHANGED <<args, ip_addresses, validator_info, gossip_data, loopVars,
                   file, fileOpened, lookup>>

\* load_validator_details: {} on every failure.
LoadValidatorDetails ==
    /\ pc = "load_details"
    /\ \/ /\ validator_info' = [x \in {} |-> NoName]
          /\ loadFailed' = loadFailed \cup {"details"}
       \/ \E validators_data \in BoundedSeq(DetailEntries, MaxDetails) :
             /\ validator_info' = ValidatorMap(validators_data, Len(validators_data))
             /\ UNCHANGED loadFailed
    /\ pc' = "load_gossip"
    /\ UNCHANGED <<args, ip_addresses, active_validator_identities, gossip_data,
                   loopVars, file, fileOpened, lookup>>

\* load_gossip_data: None for a non-zero exit, a missing command, a timeout
\* or undecodable JSON; any other exception is not caught.
LoadGossipData ==
    /\ pc = "load_gossip"
    /\ \/ /\ gossip_data' = NoGossip
          /\ loadFailed' = loadFailed \cup {"gossip"}
          /\ pc' = "check"
       \/ /\ UNCHANGED gossip_data
          /\ loadFailed' = loadFailed \cup {"gossip"}
          /\ pc' = "crashed"
       \/ \E entries \in BoundedSeq(GossipEntries, MaxSnapshot) :
             /\ gossip_data' = [none |-> FALSE, entries |-> entries]
             /\ UNCHANGED loadFailed
             /\ pc' = "check"
    /\ UNCHANGED <<args, ip_addresses, active_validator_identities, validator_info,
                   loopVars, file, fileOpened, lookup>>

\* main, the early returns and `results = []`.
CheckInputs ==
    /\ pc = "check"
    /\ pc' = IF EarlyReturn(ip_addresses, active_validator_identities,
                            validator_info, gossip_data) = "continue"
             THEN "loop" ELSE "exit_early"
    /\ UNCHANGED <<args, dataVars, loadFailed, loopVars, file, fileOpened, lookup>>

\* main, one iteration of the loop.
ProcessIP ==
    /\ pc = "loop"
    /\ Len(outcomes) < Len(ip_addresses)
    /\ \E po \in PingOutcomes, go \in GeoOutcomes :
          LET ip == ip_addresses[Len(outcomes) + 1]
              latency == ping_ip(po)
              identity_key == get_identity_from_gossip(ip, gossip_data)
              c == Classify(identity_key, active_validator_identities, validator_info)
              loc == get_ip_location(go)
          IN /\ results' = AppendResult(results,
                               BuildRow(args.no_geo, ip, c.status, c.name, latency, loc))
             /\ identities' = Append(identities, identity_key)
             /\ classified' = Append(classified, c)
             /\ outcomes' = Append(outcomes,
                               [probeFailed |-> ~(po.kind = "exit" /\ po.returncode = 0
                                                  /\ po.avg # Absent),
                                geoFailed |-> ~args.no_geo
                                              /\ ~(go.kind = "ok" /\ go.status = "success")])
    /\ UNCHANGED <<pc, args, dataVars, loadFailed, file, fileOpened, lookup>>

\* main, the try block that saves the results: open(OUTPUT_FILE, 'w')
\* truncates the file, the header and then the rows are written through it,
\* and an IOError at any of these points ends the block in the handler with
\* the file as the writes before it left it.
SaveResults ==
    /\ pc = "loop"
    /\ Len(outcomes) = Len(ip_addresses)
    /\ \/ /\ pc' = "done"
          /\ file' = [header |-> HeaderRow(args.no_geo), rows |-> results]
          /\ fileOpened' = TRUE
       \/ /\ pc' = "write_failed"            \* open raised
          /\ UNCHANGED <<file, fileOpened>>
       \/ /\ pc' = "write_failed"            \* the header write raised
          /\ file' = EmptyFile
          /\ fileOpened' = TRUE
       \/ \E k \in 0..(Len(results) - 1) :   \* writerows raised after k rows
             /\ pc' = "write_failed"
             /\ file' = [header |-> HeaderRow(args.no_geo), rows |-> SubSeq(results, 1, k)]
             /\ fileOpened' = TRUE
    /\ UNCHANGED <<args, dataVars, loadFailed, loopVars, lookup>>

Next ==
    \/ LoadIPs
    \/ LoadActiveValidators
    \/ LoadValidatorDetails
    \/ LoadGossipData
    \/ CheckInputs
    \/ ProcessIP
    \/ SaveResults

Spec == Init /\ [][Next]_vars

\* ------------------------------------------------ the lookup on its own
InitLookup ==
    /\ InitRun
    /\ lookup \in [ip : IPs,
                   gossip : [none : {FALSE}, entries : BoundedSeq(GossipEntries, MaxGossip)],
                   result : {None},
                   done : {FALSE}]

LookupStep ==
    /\ ~lookup.done
    /\ lookup' = [lookup EXCEPT !.result = get_identity_from_gossip(lookup.ip, lookup.gossip),
                                !.done = TRUE]
    /\ UNCHANGED runVars

NextLookup == LookupStep

SpecLookup == InitLookup /\ [][NextLookup]_vars

\* ---------------------------------------------------------------- claims

Min(S) == CHOOSE x \in S : \A y \in S : x <= y
HasComma(name) == \E k \in 1..Len(name) : name[k] = ","
Processed == 1..Len(outcomes)
Ended == pc \in {"done", "write_failed", "exit_early", "crashed"}

\* C1: each classification made by main is exactly one of three results:
\* gossip_not_found with an empty name iff the lookup found no identity for
\* the IP, validator iff an identity was found and is in the active set, with
\* the name map's entry for it or "Unknown", and gossip with an empty name iff
\* an identity was found that is not in the active set.
ClassificationIsThreeWay ==
    /\ Len(classified) = Len(outcomes)
    /\ Len(identities) = Len(outcomes)
    /\ \A i \in Processed :
          LET id == identities[i]
              c == classified[i]
          IN /\ id = get_identity_from_gossip(ip_addresses[i], gossip_data)
             /\ c.status \in {"validator", "gossip", "gossip_not_found"}
             /\ c.status = "gossip_not_found" <=> id = None
             /\ c.status = "validator" <=>
                   (id # None /\ id \in active_validator_identities)
             /\ c.status = "gossip" <=>
                   (id # None /\ id \notin active_validator_identities)
             /\ c.status = "validator" =>
                   c.name = IF id \in DOMAIN validator_info
                            THEN validator_info[id] ELSE UnknownName
             /\ c.status # "validator" => c.name = NoName

ClassificationWitness ==
    /\ \E i \in Processed :
          classified[i].status = "validator" /\ classified[i].name = UnknownName
    /\ \E i \in Processed : classified[i].status = "gossip_not_found"

\* C2: once a setup load has failed, no IP is ever probed, classified or
\* located, and the output file is never opened or written.
FailedLoadStopsRun ==
    loadFailed # {} =>
        /\ outcomes = <<>>
        /\ classified = <<>>
        /\ results = <<>>
        /\ ~fileOpened
        /\ file = EmptyFile
        /\ pc \notin {"loop", "done", "write_failed"}

FailedLoadWitness ==
    /\ pc = "exit_early"
    /\ loadFailed = {"gossip"}
    /\ ip_addresses # <<>>
    /\ active_validator_identities # {}
    /\ DOMAIN validator_info # {}

\* C3: a written header has the City and Country columns exactly when geo
\* enrichment is enabled, and every written data row has as many fields as
\* the header: 6 with geo enrichment, 4 without.
HeaderMatchesRows ==
    file.header # <<>> =>
        /\ (\E k \in 1..Len(file.header) : file.header[k] = "City") <=> ~args.no_geo
        /\ Len(file.header) = IF args.no_geo THEN 4 ELSE 6
        /\ \A i \in 1..Len(file.rows) : Len(file.rows[i]) = Len(file.header)

\* C4: in every written data row the Validator Name field is the classified
\* name with every comma removed, and so holds no comma.
WrittenNameHasNoComma ==
    \A i \in 1..Len(file.rows) :
        /\ i <= Len(classified) => file.rows[i][3] = StripCommas(classified[i].name)
        /\ ~HasComma(file.rows[i][3])

LoadsGaveEntries ==
    /\ loadFailed = {}
    /\ active_validator_identities # {}
    /\ DOMAIN validator_info # {}
    /\ ~gossip_data.none
    /\ gossip_data.entries # <<>>

OneRowPerIP(rows) ==
    /\ Len(rows) = Len(ip_addresses)
    /\ \A i \in 1..Len(rows) : rows[i][1] = ip_addresses[i]

\* C5 as stated: with a non-empty IP list and three successful, non-empty
\* loads, the run ends with the output file written, one data row per input
\* IP in input order.
RunEndsWithFileWritten ==
    (Ended /\ ip_addresses # <<>> /\ LoadsGaveEntries) =>
        (pc = "done" /\ OneRowPerIP(file.rows))

\* C5, amended: with a non-empty IP list and three successful, non-empty
\* loads, the run ends in the save step with one buffered row per input IP in
\* input order, duplicates kept and none dropped; when the save does not fail
\* the output file holds exactly those rows.
RunEndsWithRowPerIP ==
    (Ended /\ ip_addresses # <<>> /\ LoadsGaveEntries) =>
        /\ pc \in {"done", "write_failed"}
        /\ OneRowPerIP(results)
        /\ pc = "done" => (file.rows = results /\ OneRowPerIP(file.rows))

RowPerIPWitness ==
    /\ pc = "done"
    /\ LoadsGaveEntries
    /\ Len(ip_addresses) = 2
    /\ ip_addresses[1] = ip_addresses[2]
    /\ file.rows[1][4] = "unreachable"
    /\ file.rows[2][4] # "unreachable"

\* C6: the run exits early only when the IP set is empty or a setup load
\* actually failed; a load that succeeds with zero entries does not abort.
EarlyExitOnlyOnFailure ==
    pc = "exit_early" => (ip_addresses = <<>> \/ loadFailed # {})

\* C7: after a failed save the output file holds the complete report or
\* nothing of this run, never a header without its rows or a proper prefix of
\* the rows.
SaveIsAllOrNothing ==
    pc = "write_failed" =>
        \/ file = EmptyFile
        \/ (file.header # <<>> /\ file.rows = results)

\* C8: a failed probe gives the row the latency "unreachable", a failed geo
\* lookup gives it the city and country "Unknown"; the row is emitted all the
\* same, the run goes on to the remaining IPs, and the row's status and name
\* are those the IP has under the loaded data whatever the two calls did.
PerIPFailureOnlyDegradesItsField ==
    /\ Len(results) = Len(outcomes)
    /\ outcomes # <<>> => pc \in {"loop", "done", "write_failed"}
    /\ pc \in {"done", "write_failed"} => Len(results) = Len(ip_addresses)
    /\ \A i \in Processed :
          LET row == results[i]
              c == Classify(get_identity_from_gossip(ip_addresses[i], gossip_data),
                            active_validator_identities, validator_info)
          IN /\ row[1] = ip_addresses[i]
             /\ outcomes[i].probeFailed => row[4] = "unreachable"
             /\ outcomes[i].geoFailed => (row[5] = "Unknown" /\ row[6] = "Unknown")
             /\ row[2] = c.status
             /\ row[3] = IF args.no_geo THEN c.name ELSE StripCommas(c.name)

PerIPFailureWitness ==
    /\ pc = "done"
    /\ Len(file.rows) = 2
    /\ outcomes[1].probeFailed /\ outcomes[1].geoFailed
    /\ ~outcomes[2].probeFailed /\ ~outcomes[2].geoFailed
    /\ file.rows[1][2] = "validator"
    /\ file.rows[2][2] = "validator"

\* C9: no run ends in an unhandled error.
NoUnhandledError == pc # "crashed"

AllObjects(entries) == \A j \in 1..Len(entries) : entries[j].isObj

\* C10 as stated, for snapshots of well-formed records: the result is the
\* identity of the first record whose ipAddress equals the query, and it is
\* not-found iff no record's ipAddress equals the query.
FirstIpMatchWins ==
    (lookup.done /\ AllObjects(lookup.gossip.entries)) =>
        LET e == lookup.gossip.entries
            M == {j \in 1..Len(e) : e[j].ipAddress = lookup.ip}
        IN /\ lookup.result = None <=> M = {}
           /\ M # {} => lookup.result = e[Min(M)].identityPubkey

\* C10, amended: the result is the identity of the first record, in snapshot
\* order, whose ipAddress equals the query and whose identityPubkey is not
\* empty, and it is not-found iff there is no such record or a record that is
\* not an object comes before it; a later record with the same IP supplies
\* the identity only when every earlier record with that IP has none.
FirstIdentifiedMatchWins ==
    lookup.done =>
        LET e == lookup.gossip.entries
            H == {j \in 1..Len(e) :
                     \/ ~e[j].isObj
                     \/ (e[j].ipAddress = lookup.ip /\ e[j].identityPubkey # Blank)}
        IN IF H = {} \/ ~e[Min(H)].isObj THEN lookup.result = None
           ELSE /\ lookup.result = e[Min(H)].identityPubkey
                /\ \A j \in 1..(Min(H) - 1) :
                      e[j].ipAddress = lookup.ip => e[j].identityPubkey = Blank

FirstIdentifiedMatchWitness ==
    /\ lookup.done
    /\ Len(lookup.gossip.entries) = 3
    /\ lookup.gossip.entries[1].isObj
    /\ lookup.gossip.entries[1].ipAddress = lookup.ip
    /\ lookup.gossip.entries[1].identityPubkey = Blank
    /\ lookup.gossip.entries[2] = [isObj |-> TRUE, ipAddress |-> lookup.ip,
                                   identityPubkey |-> "ABC"]
    /\ lookup.gossip.entries[3] = [isObj |-> TRUE, ipAddress |-> lookup.ip,
                                   identityPubkey |-> "DEF"]
    /\ lookup.result = "ABC"

====
